---- MODULE Spec2Model ----
(***************************************************************************)
(* Quotes aggregator: the POST /api/v1/quotes pipeline (auth guard,        *)
(* idempotency interceptor, validation pipe, QuotesService.createQuote     *)
(* behind an opossum circuit breaker), the in-memory idempotency store and *)
(* the in-memory quote store.                                              *)
(*                                                                         *)
(* Scheduling: Node runs one callback at a time.  A request runs without   *)
(* interruption from its arrival up to `await this.breaker.fire(dto)`      *)
(* when the wrapped call is started (all earlier awaits are promise        *)
(* continuations of the same tick), and again without interruption from    *)
(* the completion of the wrapped call up to the response.  Other requests  *)
(* and timers run between those two segments.                              *)
(*                                                                         *)
(* Time is Date.now() in milliseconds, observed at whole seconds.          *)
(***************************************************************************)
EXTENDS Integers, Sequences, FiniteSets, TLC

\* ------------------------------------------------------------------- state
VARIABLES
    now,                  \* Date.now()
    store,                \* IdempotencyService.store: key -> [body, createdAt]
    quotesDb,             \* quotesDb: quoteId -> Quote
    published,            \* the publishQuoteIssued calls: [quoteId, idempotencyKey] -> how many
    quotesCreatedTotal,   \* quotes_created_total, by <<status, document_type>>
    circuitBreakerState,  \* circuit_breaker_state gauge
    cb,                   \* the circuit breaker
    req,                  \* the requests: input, position and response
    dto,                  \* a CreateQuoteDto priced outside a request
    priced,               \* what callExternalAggregator and the fallback gave for dto
    idempotencyHitsTotal, \* idempotency_hits_total
    serviceBus,           \* how the Service Bus is configured
    sends,                \* the sendMessages calls: quoteId -> outcome
    last,                 \* the last request as it was sent, and its response
    thrown,               \* an exception given to HttpExceptionFilter, and its answer
    cbEnv                 \* the CB_* settings the service was started with

\* The CB_* settings: the one every default stands for, and one in which
\* a call may run longer than the breaker stays OPEN.
EnvDefault == "default"
EnvSlowCalls == "slowCalls"

\* ---------------------------------------------------------------- bounds
NReq == 3          \* number of requests in a behaviour
MaxTicks == 3      \* the clock stops after this many seconds
MaxAmount == 6     \* the small coverage amounts priced are 1..MaxAmount

\* ------------------------------------------------------- configuration
MsPerSecond == 1000              \* ttlSeconds * 1000
ttlSeconds == 2                  \* IDEMPOTENCY_TTL (default 86400)
cbTimeout == 1000                \* CB_TIMEOUT (default 3000)
errorThresholdPercentage == 50   \* CB_ERROR_THRESHOLD
resetTimeout == 1000             \* CB_RESET_TIMEOUT (default 30000)
volumeThreshold == 2             \* CB_VOLUME_THRESHOLD (default 5)
MaxCoverage == 10000000          \* @Max(10_000_000)
slowTimeout == 2000              \* CB_TIMEOUT set above CB_RESET_TIMEOUT
lowErrorThreshold == 40          \* CB_ERROR_THRESHOLD set below the default
lowVolumeThreshold == 1          \* CB_VOLUME_THRESHOLD set to one call

ttlMs == ttlSeconds * MsPerSecond

Req == 1..NReq

\* ---------------------------------------------------------- header values
\* The Idempotency-Key header values sent, by name; HeaderText gives the
\* characters of each.  NoKey stands for both an absent header (undefined)
\* and '' since `!key` is true of both.
KeyA == "KeyA"
KeyB == "KeyB"
KeyNotUuid == "KeyNotUuid"
KeyV1 == "KeyV1"
NoKey == ""

HeaderText(key) ==
    CASE key = KeyA ->
           <<"1", "1", "1", "1", "1", "1", "1", "1", "-", "1", "1", "1",
           "1", "-", "4", "1", "1", "1", "-", "8", "1", "1", "1", "-",
           "1", "1", "1", "1", "1", "1", "1", "1", "1", "1", "1", "1">>
      [] key = KeyB ->
           <<"A", "B", "C", "D", "E", "F", "0", "0", "-", "0", "0", "0",
           "0", "-", "4", "0", "0", "0", "-", "B", "0", "0", "0", "-",
           "0", "0", "0", "0", "0", "0", "0", "0", "0", "0", "0", "f">>
      [] key = KeyV1 ->
           <<"1", "1", "1", "1", "1", "1", "1", "1", "-", "1", "1", "1",
           "1", "-", "1", "1", "1", "1", "-", "8", "1", "1", "1", "-",
           "1", "1", "1", "1", "1", "1", "1", "1", "1", "1", "1", "1">>
      [] key = KeyNotUuid ->
           <<"n", "o", "t", "-", "a", "-", "u", "u", "i", "d">>
      [] OTHER -> <<>>

HexDigits == {"0", "1", "2", "3", "4", "5", "6", "7", "8", "9",
              "a", "b", "c", "d", "e", "f", "A", "B", "C", "D", "E", "F"}

\* A weaker pattern: any UUID, whatever its version and variant.
UUID_V4_AnyVersion(key) ==
    LET s == HeaderText(key) IN
    /\ Len(s) = 36
    /\ \A i \in 1..36 :
          IF i \in {9, 14, 19, 24} THEN s[i] = "-" ELSE s[i] \in HexDigits

\* /^[0-9a-f]{8}-[0-9a-f]{4}-4[0-9a-f]{3}-[89ab][0-9a-f]{3}-[0-9a-f]{12}$/i
UUID_V4(key) ==
    LET s == HeaderText(key) IN
    /\ Len(s) = 36
    /\ \A i \in 1..36 :
          CASE i \in {9, 14, 19, 24} -> s[i] = "-"
            [] i = 15 -> s[i] = "4"
            [] i = 20 -> s[i] \in {"8", "9", "a", "b", "A", "B"}
            [] OTHER -> s[i] \in HexDigits

\* Authorization header values, by the branch of canActivate they take.
AuthAbsent == "absent"
AuthNotBearer == "NotBearer token"
AuthBearerInvalid == "Bearer totally.invalid.token"
AuthBearerDev == "Bearer dev-token"

\* Variant: only an absent header is refused as missing; a header of
\* another scheme passes.
canActivate_AnyScheme(auth) ==
    CASE auth = AuthAbsent -> "MISSING_TOKEN"
      [] auth \in {AuthBearerDev, AuthNotBearer} -> "ok"
      [] OTHER -> "INVALID_TOKEN"

canActivate(auth) ==
    CASE auth \in {AuthAbsent, AuthNotBearer} -> "MISSING_TOKEN"
      [] auth = AuthBearerDev -> "ok"
      [] OTHER -> "INVALID_TOKEN"

\* ------------------------------------------------------------ request body
\* The fields of CreateQuoteDto that decide validation and pricing here.
DocumentType == {"AUTO", "HOME", "LIFE", "HEALTH", "TRAVEL"}

BodyAuto == [documentType |-> "AUTO", coverageAmount |-> 50000]
BodyHome == [documentType |-> "HOME", coverageAmount |-> 1234]
BodyBoat == [documentType |-> "BOAT", coverageAmount |-> 50000]

\* Variant: the ValidationPipe lets every body through.
IsValidDto_Any(body) == TRUE

\* class-validator on CreateQuoteDto: @IsEnum(DocumentType), @Min(0.01),
\* @Max(10_000_000) (coverage amounts are whole numbers here).
IsValidDto(body) ==
    /\ body.documentType \in DocumentType
    /\ body.coverageAmount >= 1
    /\ body.coverageAmount <= MaxCoverage

\* The requests a client sends: [auth, key, body].
Requests ==
    [auth : {AuthAbsent, AuthBearerInvalid}, key : {KeyA}, body : {BodyAuto}]
    \cup [auth : {AuthBearerDev}, key : {NoKey, KeyNotUuid, KeyV1}, body : {BodyAuto}]
    \cup [auth : {AuthBearerDev}, key : {KeyA}, body : {BodyAuto, BodyBoat}]
    \cup [auth : {AuthBearerDev}, key : {KeyB}, body : {BodyHome}]

\* The parts of a request that the pipeline did not read before it
\* answered are not kept with the request.
UnreadKey == "?"
UnreadBody == [documentType |-> "?", coverageAmount |-> 0]

\* ----------------------------------------------------------------- pricing
\* RATES in thousandths; 0.02 for a type that is not in the table.
Rate(documentType) ==
    CASE documentType = "AUTO" -> 25
      [] documentType = "HOME" -> 18
      [] documentType = "LIFE" -> 12
      [] documentType = "HEALTH" -> 20
      [] documentType = "TRAVEL" -> 8
      [] OTHER -> 20

\* Variant: the premium is cut, not rounded, to two decimals.
Premium_Truncated(body) == (body.coverageAmount * Rate(body.documentType)) \div 10

\* Math.round(coverageAmount * rate * 100) / 100, in hundredths.
Premium(body) == (body.coverageAmount * Rate(body.documentType) + 5) \div 10

\* callExternalAggregator when it resolves.
AggregatorResult(body) == [premium |-> Premium(body), status |-> "APPROVED"]

\* Variant: the fallback reports the status of a priced quote.
FallbackResult_Approved(body) == [premium |-> Premium(body), status |-> "APPROVED"]

\* Variant: the fallback never finds the type in RATES and prices with 0.02.
FallbackResult_DefaultRate(body) ==
    [premium |-> (body.coverageAmount * 20 + 5) \div 10, status |-> "PENDING"]

\* The function registered with breaker.fallback: its own
\* Math.round(coverageAmount * rate * 100) / 100 over RATES.
FallbackResult(body) ==
    [premium |-> (body.coverageAmount * Rate(body.documentType) + 5) \div 10,
     status |-> "PENDING"]

NoQuote == [quoteId |-> 0, documentType |-> "", coverageAmount |-> 0,
            premium |-> 0, status |-> ""]

\* The Quote built by createQuote, in the fields that identify and price
\* it (quoteId from uuidv4: a fresh identifier).
MakeQuote(id, body, agg) ==
    [quoteId |-> id, documentType |-> body.documentType,
     coverageAmount |-> body.coverageAmount, premium |-> agg.premium,
     status |-> agg.status]

\* ------------------------------------------------------ IdempotencyService
\* Variant: the comparison the other way round.
IsLive_Inverted(entry, t) == t - entry.createdAt > ttlMs

\* Date.now() - entry.createdAt < this.ttlMs
IsLive(entry, t) == t - entry.createdAt < ttlMs

\* get(key) returns an entry (not null).
\* Variant: get never finds an entry.
IdempotencyHit_Never(st, key, t) == FALSE

IdempotencyHit(st, key, t) == key \in DOMAIN st /\ IsLive(st[key], t)

\* Variant: a hit restarts the entry's TTL (sliding expiry).
IdempotencyAfterGet_Sliding(st, key, t) ==
    IF key \in DOMAIN st
    THEN IF t - st[key].createdAt < ttlMs
         THEN [st EXCEPT ![key].createdAt = t]
         ELSE [k \in DOMAIN st \ {key} |-> st[k]]
    ELSE st

\* Variant: get deletes the entry it returns.
IdempotencyAfterGet_DeleteAlways(st, key, t) ==
    [k \in DOMAIN st \ {key} |-> st[k]]

\* Variant: an expired entry is reported as a miss but stays in the Map.
IdempotencyAfterGet_NoEvict(st, key, t) == st

\* The Map after get(key): an expired entry is deleted.
IdempotencyAfterGet(st, key, t) ==
    IF key \in DOMAIN st /\ ~IsLive(st[key], t)
    THEN [k \in DOMAIN st \ {key} |-> st[k]]
    ELSE st

\* set(key, body): this.store.set(key, { body, createdAt: Date.now() })
IdempotencySet(st, key, body, t) ==
    [k \in DOMAIN st \cup {key} |->
        IF k = key THEN [body |-> body, createdAt |-> t] ELSE st[k]]

\* ------------------------------------------------- circuit breaker (opossum)
\* Variant: the two thresholds read from each other's configuration key.
cbOpts_ThresholdsSwapped ==
    [timeout |-> cbTimeout, errorThresholdPercentage |-> volumeThreshold,
     resetTimeout |-> resetTimeout, volumeThreshold |-> errorThresholdPercentage]

\* Variant: no volumeThreshold option is passed (the library's default is 0).
cbOpts_NoVolumeThreshold ==
    [timeout |-> cbTimeout, errorThresholdPercentage |-> errorThresholdPercentage,
     resetTimeout |-> resetTimeout, volumeThreshold |-> 0]

\* Variant: the reset timer is started with no delay.
cbOpts_NoResetDelay ==
    [timeout |-> cbTimeout, errorThresholdPercentage |-> errorThresholdPercentage,
     resetTimeout |-> 0, volumeThreshold |-> volumeThreshold]

\* onModuleInit: the options given to the breaker, read from the
\* environment the service was started in.
cbOpts ==
    IF cbEnv = EnvSlowCalls
    THEN [timeout |-> slowTimeout, errorThresholdPercentage |-> lowErrorThreshold,
          resetTimeout |-> resetTimeout, volumeThreshold |-> lowVolumeThreshold]
    ELSE [timeout |-> cbTimeout, errorThresholdPercentage |-> errorThresholdPercentage,
          resetTimeout |-> resetTimeout, volumeThreshold |-> volumeThreshold]

\* new CircuitBreaker(callExternalAggregator, cbOpts): the breaker's state,
\* the PENDING_CLOSE flag, the rolling counts of 'fire' and 'failure' events
\* (the window is rollingCountTimeout = 10 s, longer than a behaviour here)
\* and the deadline of the reset timer (-1: no timer).
BreakerInit == [state |-> "CLOSED", pendingClose |-> FALSE,
                fires |-> 0, failures |-> 0, resetAt |-> -1]

\* fire(): emit('fire') counts the call, dispatched or not.
BreakerEmitFire(b) == [b EXCEPT !.fires = @ + 1]

\* Variant: fire() dispatches every call.
BreakerAccepts_Always(b) == TRUE

\* fire(): the call is rejected unless the breaker is closed or a close is
\* pending (the HALF_OPEN trial).
BreakerAccepts(b) == b.state = "CLOSED" \/ b.pendingClose

\* Variant: an accepted call leaves PENDING_CLOSE as it is.
BreakerDispatch_KeepsPending(b) == b

\* fire(): an accepted call clears PENDING_CLOSE before the action runs.
BreakerDispatch(b) == [b EXCEPT !.pendingClose = FALSE]

\* open(): starts the reset timer.
BreakerOpen(b, t) ==
    IF b.state # "OPEN"
    THEN [b EXCEPT !.state = "OPEN", !.pendingClose = FALSE,
                   !.resetAt = t + cbOpts.resetTimeout]
    ELSE b

\* close()
BreakerClose(b) ==
    IF b.state # "CLOSED"
    THEN [b EXCEPT !.state = "CLOSED", !.pendingClose = FALSE, !.resetAt = -1]
    ELSE b

\* Variant: the reset timer's callback does not allow a trial call.
BreakerHalfOpen_NoTrial(b) ==
    [b EXCEPT !.state = "HALF_OPEN", !.pendingClose = FALSE, !.resetAt = -1]

\* The reset timer's callback.
BreakerHalfOpen(b) ==
    [b EXCEPT !.state = "HALF_OPEN", !.pendingClose = TRUE, !.resetAt = -1]

\* Variant: a success leaves the breaker as it is.
BreakerSuccess_Ignored(b) == b

\* Variant: any success closes the breaker.
BreakerSuccess_AnyState(b) == BreakerClose(b)

\* on('success'): a success while HALF_OPEN closes the breaker.
BreakerSuccess(b) == IF b.state = "HALF_OPEN" THEN BreakerClose(b) ELSE b

\* fail(): counts the failure, then opens when HALF_OPEN or when the volume
\* threshold is met and the error rate is above the threshold.
BreakerFail(b, t) ==
    LET b1 == [b EXCEPT !.failures = @ + 1] IN
    IF b1.fires < cbOpts.volumeThreshold /\ b1.state # "HALF_OPEN" THEN b1
    ELSE IF \/ b1.failures * 100 > cbOpts.errorThresholdPercentage * b1.fires
            \/ b1.state = "HALF_OPEN"
         THEN BreakerOpen(b1, t)
         ELSE b1

\* Variant: the values of the 'open' and 'halfOpen' listeners exchanged.
GaugeValue_Exchanged(state) ==
    CASE state = "OPEN" -> 2
      [] state = "HALF_OPEN" -> 1
      [] OTHER -> 0

\* breaker.on('open' | 'halfOpen' | 'close'): circuit_breaker_state gauge.
GaugeValue(state) ==
    CASE state = "OPEN" -> 1
      [] state = "HALF_OPEN" -> 2
      [] OTHER -> 0

\* The gauge after a step that takes the breaker from b to b2 (the
\* listeners run on a transition only).
GaugeAfter(b, b2, g) == IF b2.state # b.state THEN GaugeValue(b2.state) ELSE g

vars == <<now, store, quotesDb, published, quotesCreatedTotal,
          circuitBreakerState, cb, req, dto, priced,
          idempotencyHitsTotal, serviceBus, sends, last, thrown, cbEnv>>

\* No statement of the service writes these: idempotencyHitsTotal is
\* registered and never incremented, the configuration is read only.
fixed == <<idempotencyHitsTotal, serviceBus, cbEnv>>

\* The pricing of dto is not part of the request pipeline.
pricing == <<dto, priced>>

NoResult == [premium |-> 0, status |-> ""]
NotPriced == [aggregator |-> NoResult, fallback |-> NoResult]

NoResponse == [status |-> 0, code |-> "", idem |-> "", body |-> NoQuote]

NewRequest == [pc |-> "new", auth |-> AuthAbsent, key |-> UnreadKey,
               body |-> UnreadBody, startedAt |-> 0, overlapped |-> FALSE,
               entryCreatedAt |-> 0, trial |-> FALSE, resp |-> NoResponse]

EmptyStore == [k \in {} |-> [body |-> NoQuote, createdAt |-> 0]]

\* SERVICE_BUS_CONNECTION_STRING and SERVICE_BUS_NAMESPACE: neither is set,
\* the connection string is set, or the namespace alone is set.
BusNone == "none"
BusConnectionString == "connectionString"
BusNamespace == "namespace"

NoCalls == [c \in {} |-> 0]
NoSends == [i \in {} |-> ""]

NoExchange == [method |-> "", auth |-> AuthAbsent, key |-> UnreadKey,
               body |-> UnreadBody, quoteId |-> 0, resp |-> NoResponse]

NoException == [kind |-> "", status |-> 0, code |-> "", message |-> ""]
NoJson == [status |-> 0, code |-> "", message |-> ""]
NoThrow == [exception |-> NoException, headersSent |-> FALSE, json |-> NoJson]

Init ==
    /\ now = 0
    /\ store = EmptyStore
    /\ quotesDb = [i \in {} |-> NoQuote]
    /\ published = NoCalls
    /\ quotesCreatedTotal = [l \in {"APPROVED", "PENDING"} \X DocumentType |-> 0]
    /\ circuitBreakerState = 0
    /\ cb = BreakerInit
    /\ req = [r \in Req |-> NewRequest]
    /\ dto = UnreadBody
    /\ priced = NotPriced
    /\ idempotencyHitsTotal = 0
    /\ serviceBus = BusNone
    /\ sends = NoSends
    /\ last = NoExchange
    /\ thrown = NoThrow
    /\ cbEnv = EnvDefault

\* The requests with key `key` whose wrapped call is running.
InFlight(key) == {r \in Req : req[r].pc = "inflight" /\ req[r].key = key}

\* Variant: every quote gets the same quoteId.
FreshId_Same(r) == NReq

\* uuidv4() in createQuote: an identifier no other quote has; request r
\* creates at most one quote and that quote gets identifier r.
FreshId(r) == r

\* ---------------------------------------------------------------- responses
\* HttpExceptionFilter on an exception that carries a code.
ErrorResponse(status, code) ==
    [status |-> status, code |-> code, idem |-> "", body |-> NoQuote]

\* Variant: the replay keeps the route's @HttpCode(201).
CachedResponse_RouteStatus(entry) ==
    [status |-> 201, code |-> "", idem |-> "cached", body |-> entry.body]

\* res.setHeader('X-Idempotency-Result', 'cached'); res.status(200).json(cached.body)
CachedResponse(entry) ==
    [status |-> 200, code |-> "", idem |-> "cached", body |-> entry.body]

\* Variant: a quote priced by the fallback is answered as unavailable.
CreatedResponse_Unavailable(quote) ==
    IF quote.status = "PENDING"
    THEN [status |-> 503, code |-> "SERVICE_UNAVAILABLE", idem |-> "", body |-> NoQuote]
    ELSE [status |-> 201, code |-> "", idem |-> "created", body |-> quote]

\* @HttpCode(HttpStatus.CREATED) and the tap's X-Idempotency-Result: created
CreatedResponse(quote) ==
    [status |-> 201, code |-> "", idem |-> "created", body |-> quote]

\* The request r ends with response resp; q is what the pipeline read of
\* the request.  The request keeps whether its wrapped call was dispatched
\* while the breaker was HALF_OPEN.
Respond(r, q, resp) ==
    req' = [req EXCEPT ![r] = [pc |-> "done", auth |-> q.auth, key |-> q.key,
                               body |-> q.body, startedAt |-> 0,
                               overlapped |-> FALSE, entryCreatedAt |-> 0,
                               trial |-> req[r].trial, resp |-> resp]]

\* The request r is answered from the entry get(key) returned; the request
\* keeps that entry's createdAt and whether a request with the same key
\* was in flight at that moment.
RespondCached(r, q, entry) ==
    req' = [req EXCEPT ![r] = [pc |-> "done", auth |-> q.auth, key |-> q.key,
                               body |-> UnreadBody, startedAt |-> 0,
                               overlapped |-> InFlight(q.key) # {},
                               entryCreatedAt |-> entry.createdAt,
                               trial |-> FALSE,
                               resp |-> CachedResponse(entry)]]

\* Variant: the event is published once by the service and once more.
CallPublish_Twice(pub, quote, key) ==
    LET call == [quoteId |-> quote.quoteId, idempotencyKey |-> key] IN
    [c \in DOMAIN pub \cup {call} |->
        IF c = call THEN (IF c \in DOMAIN pub THEN pub[c] ELSE 0) + 2 ELSE pub[c]]

\* this.publisherService.publishQuoteIssued(quote, dto.idempotencyKey): one
\* more call with these arguments.
CallPublish(pub, quote, key) ==
    LET call == [quoteId |-> quote.quoteId, idempotencyKey |-> key] IN
    [c \in DOMAIN pub \cup {call} |->
        IF c = call THEN (IF c \in DOMAIN pub THEN pub[c] ELSE 0) + 1 ELSE pub[c]]

\* getSender(): null when neither setting is there.
getSender(bus) == bus # BusNone

\* publishQuoteIssued up to `await sender.sendMessages(...)`: without a
\* sender it returns at once, with one the message is on its way.
publishQuoteIssued(bus, sd, quote) ==
    IF ~getSender(bus) THEN sd
    ELSE [i \in DOMAIN sd \cup {quote.quoteId} |->
             IF i = quote.quoteId THEN "pending" ELSE sd[i]]

\* Variant: the counter is labelled with the status the aggregator gives.
QuotesCreatedInc_AggregatorStatus(c, quote) ==
    [c EXCEPT ![<<"APPROVED", quote.documentType>>] = @ + 1]

\* quotesCreatedTotal.inc({ status: quote.status, document_type: quote.documentType })
QuotesCreatedInc(c, quote) ==
    [c EXCEPT ![<<quote.status, quote.documentType>>] = @ + 1]

\* Variant: createQuote returns the quote without quotesDb.set.
FinishCreate_NoInsert(r, q, agg, st) ==
    LET quote == MakeQuote(FreshId(r), q.body, agg) IN
    /\ quotesDb' = quotesDb
    /\ published' = CallPublish(published, quote, q.key)
    /\ sends' = publishQuoteIssued(serviceBus, sends, quote)
    /\ quotesCreatedTotal' = QuotesCreatedInc(quotesCreatedTotal, quote)
    /\ store' = IdempotencySet(st, q.key, quote, now)
    /\ Respond(r, q, CreatedResponse(quote))

\* createQuote after `await this.breaker.fire(dto)` gave agg, then the
\* controller's return and the interceptor's tap: the quote is put in
\* quotesDb, publishQuoteIssued is called, the counter is incremented, the
\* response body is stored under the key (st is the Map before the set) and
\* the response is 201.
FinishCreate(r, q, agg, st) ==
    LET quote == MakeQuote(FreshId(r), q.body, agg) IN
    /\ quotesDb' = [i \in DOMAIN quotesDb \cup {quote.quoteId} |->
                       IF i = quote.quoteId THEN quote ELSE quotesDb[i]]
    /\ published' = CallPublish(published, quote, q.key)
    /\ sends' = publishQuoteIssued(serviceBus, sends, quote)
    /\ quotesCreatedTotal' = QuotesCreatedInc(quotesCreatedTotal, quote)
    /\ store' = IdempotencySet(st, q.key, quote, now)
    /\ Respond(r, q, CreatedResponse(quote))

\* Variant: the outcome is stored whether the handler returned or threw.
TapOnError_Stores(st, key, t) == IdempotencySet(st, key, NoQuote, t)

\* tap((data) => ...) has a next callback only: when the pipe or the
\* handler throws, the tap does not run and the Map stays as get left it.
TapOnError(st, key, t) == st

NoBusiness == UNCHANGED <<quotesDb, published, quotesCreatedTotal, sends>>

\* ------------------------------------------------------------------ actions
\* A POST /api/v1/quotes arrives: AuthGuard.canActivate, then
\* IdempotencyInterceptor.intercept, then the ValidationPipe, then
\* QuotesController.create -> QuotesService.createQuote up to breaker.fire.
\* When the breaker rejects the call the fallback result is there at once
\* and the request runs to its response.
Arrive(r, q) ==
    /\ req[r].pc = "new"
    /\ \A p \in Req : p < r => req[p].pc # "new"
    /\ UNCHANGED <<now, pricing, fixed, thrown>>
    /\ LET authResult == canActivate(q.auth)
           afterGet == IdempotencyAfterGet(store, q.key, now)
           fired == BreakerEmitFire(cb)
       IN
       IF authResult # "ok" THEN
            /\ Respond(r, [q EXCEPT !.key = UnreadKey, !.body = UnreadBody],
                       ErrorResponse(401, authResult))
            /\ NoBusiness
            /\ UNCHANGED <<store, cb, circuitBreakerState>>
       ELSE IF q.key = NoKey THEN
            /\ Respond(r, [q EXCEPT !.body = UnreadBody],
                       ErrorResponse(400, "MISSING_IDEMPOTENCY_KEY"))
            /\ NoBusiness
            /\ UNCHANGED <<store, cb, circuitBreakerState>>
       ELSE IF ~UUID_V4(q.key) THEN
            /\ Respond(r, [q EXCEPT !.body = UnreadBody],
                       ErrorResponse(400, "INVALID_IDEMPOTENCY_KEY"))
            /\ NoBusiness
            /\ UNCHANGED <<store, cb, circuitBreakerState>>
       ELSE IF IdempotencyHit(store, q.key, now) THEN
            /\ RespondCached(r, q, store[q.key])
            /\ store' = afterGet
            /\ NoBusiness
            /\ UNCHANGED <<cb, circuitBreakerState>>
       ELSE IF ~IsValidDto(q.body) THEN
            /\ Respond(r, q, ErrorResponse(400, "VALIDATION_ERROR"))
            /\ store' = TapOnError(afterGet, q.key, now)
            /\ NoBusiness
            /\ UNCHANGED <<cb, circuitBreakerState>>
       ELSE IF ~BreakerAccepts(fired) THEN
            /\ FinishCreate(r, q, FallbackResult(q.body), afterGet)
            /\ cb' = fired
            /\ UNCHANGED circuitBreakerState
       ELSE
            /\ req' = [req EXCEPT ![r] = [pc |-> "inflight", auth |-> q.auth,
                                          key |-> q.key, body |-> q.body,
                                          startedAt |-> now,
                                          overlapped |-> FALSE,
                                          entryCreatedAt |-> 0,
                                          trial |-> cb.state = "HALF_OPEN",
                                          resp |-> NoResponse]]
            /\ store' = afterGet
            /\ cb' = BreakerDispatch(fired)
            /\ NoBusiness
            /\ UNCHANGED circuitBreakerState

\* The request as it was sent.
Sent(r) == [auth |-> req[r].auth, key |-> req[r].key, body |-> req[r].body]

\* callExternalAggregator resolves before the breaker's timeout fired.
CallSucceeds(r) ==
    /\ req[r].pc = "inflight"
    /\ cb' = BreakerSuccess(cb)
    /\ circuitBreakerState' = GaugeAfter(cb, cb', circuitBreakerState)
    /\ FinishCreate(r, Sent(r), AggregatorResult(req[r].body), store)
    /\ UNCHANGED <<now, pricing, fixed, thrown, last>>

\* callExternalAggregator rejects ('External aggregator timeout'): the
\* breaker counts the failure and the fallback gives the result.
CallFails(r) ==
    /\ req[r].pc = "inflight"
    /\ cb' = BreakerFail(cb, now)
    /\ circuitBreakerState' = GaugeAfter(cb, cb', circuitBreakerState)
    /\ FinishCreate(r, Sent(r), FallbackResult(req[r].body), store)
    /\ UNCHANGED <<now, pricing, fixed, thrown, last>>

\* Variant: the breaker sets no timer for the call.
CallTimesOut_Off(r) ==
    /\ req[r].pc = "inflight"
    /\ FALSE
    /\ UNCHANGED vars

\* The breaker's timeout fires before callExternalAggregator settled: a
\* failure, and the fallback gives the result.
CallTimesOut(r) ==
    /\ req[r].pc = "inflight"
    /\ now >= req[r].startedAt + cbOpts.timeout
    /\ cb' = BreakerFail(cb, now)
    /\ circuitBreakerState' = GaugeAfter(cb, cb', circuitBreakerState)
    /\ FinishCreate(r, Sent(r), FallbackResult(req[r].body), store)
    /\ UNCHANGED <<now, pricing, fixed, thrown, last>>

\* The reset timer started by open() fires.
ResetTimerFires ==
    /\ cb.resetAt >= 0
    /\ now >= cb.resetAt
    /\ cb' = BreakerHalfOpen(cb)
    /\ circuitBreakerState' = GaugeAfter(cb, cb', circuitBreakerState)
    /\ UNCHANGED <<now, store, quotesDb, published, quotesCreatedTotal, req,
                   pricing, fixed, thrown, sends, last>>

\* A timer that is due runs before the clock moves on.
TimerDue ==
    \/ cb.resetAt >= 0 /\ now >= cb.resetAt
    \/ \E r \in Req : req[r].pc = "inflight" /\ now >= req[r].startedAt + cbOpts.timeout

\* One second passes.
Tick ==
    /\ now < MaxTicks * MsPerSecond
    /\ ~TimerDue
    /\ now' = now + MsPerSecond
    /\ UNCHANGED <<store, quotesDb, published, quotesCreatedTotal,
                   circuitBreakerState, cb, req, pricing, fixed, thrown, sends, last>>

Next ==
    \/ \E r \in Req, q \in Requests : Arrive(r, q) /\ UNCHANGED last
    \/ \E r \in Req : CallSucceeds(r)
    \/ \E r \in Req : CallFails(r)
    \/ \E r \in Req : CallTimesOut(r)
    \/ ResetTimerFires
    \/ Tick

Spec == Init /\ [][Next]_vars

\* ------------------------------------------------------------------ pricing
\* callExternalAggregator and the fallback are functions of the dto alone.
\* They are applied here to dtos that did not go through the
\* ValidationPipe: every document type, one that is not in RATES, and
\* coverage amounts small and large.
Amounts == (1..MaxAmount) \cup
           {BodyHome.coverageAmount, BodyAuto.coverageAmount, MaxCoverage}

Dtos == [documentType : DocumentType \cup {BodyBoat.documentType},
         coverageAmount : Amounts]

PricingInit ==
    /\ now = 0
    /\ store = EmptyStore
    /\ quotesDb = [i \in {} |-> NoQuote]
    /\ published = NoCalls
    /\ quotesCreatedTotal = [l \in {"APPROVED", "PENDING"} \X DocumentType |-> 0]
    /\ circuitBreakerState = 0
    /\ cb = BreakerInit
    /\ req = [r \in Req |-> NewRequest]
    /\ dto \in Dtos
    /\ priced = NotPriced
    /\ idempotencyHitsTotal = 0
    /\ serviceBus = BusNone
    /\ sends = NoSends
    /\ last = NoExchange
    /\ thrown = NoThrow
    /\ cbEnv = EnvDefault

\* callExternalAggregator(dto) resolves.
CallExternalAggregator ==
    /\ priced.aggregator = NoResult
    /\ priced' = [priced EXCEPT !.aggregator = AggregatorResult(dto)]
    /\ UNCHANGED <<now, store, quotesDb, published, quotesCreatedTotal,
                   circuitBreakerState, cb, req, dto, fixed, thrown, sends, last>>

\* The fallback is called with dto.
CallFallback ==
    /\ priced.fallback = NoResult
    /\ priced' = [priced EXCEPT !.fallback = FallbackResult(dto)]
    /\ UNCHANGED <<now, store, quotesDb, published, quotesCreatedTotal,
                   circuitBreakerState, cb, req, dto, fixed, thrown, sends, last>>

PricingNext ==
    \/ CallExternalAggregator
    \/ CallFallback

SpecPricing == PricingInit /\ [][PricingNext]_vars

\* ------------------------------------------------------------------ the API
\* Both routes of QuotesController, with every kind of Authorization
\* header and a key that is sent again with another body.  The aggregator
\* answers every call and the clock does not move here.
ApiRequests ==
    [auth : {AuthAbsent, AuthNotBearer, AuthBearerInvalid}, key : {KeyA},
     body : {BodyAuto}]
    \cup [auth : {AuthBearerDev}, key : {KeyA}, body : {BodyAuto, BodyHome}]

\* The quoteIds asked for: those the requests can create and one that no
\* request creates.
QuoteIds == Req \cup {NReq + 1}

\* POST /api/v1/quotes.
PostQuote(r, q) ==
    /\ Arrive(r, q)
    /\ last' = [method |-> "POST", auth |-> q.auth, key |-> q.key,
                body |-> q.body, quoteId |-> 0, resp |-> req'[r].resp]

\* The handler's return value with the route's default status.
FoundResponse(quote) ==
    [status |-> 200, code |-> "", idem |-> "", body |-> quote]

\* Variant: a quote that is not there is an internal failure.
getQuoteById_Internal(db, quoteId) ==
    IF quoteId \in DOMAIN db THEN FoundResponse(db[quoteId])
    ELSE ErrorResponse(500, "INTERNAL_SERVER_ERROR")

\* getQuoteById: quotesDb.get(quoteId), NotFoundException when it is not
\* there (HttpExceptionFilter passes its status and code through).
getQuoteById(db, quoteId) ==
    IF quoteId \in DOMAIN db THEN FoundResponse(db[quoteId])
    ELSE ErrorResponse(404, "NOT_FOUND")

\* GET /api/v1/quotes/:quoteId: AuthGuard.canActivate, then getById.
GetQuote(auth, quoteId) ==
    /\ last' = [method |-> "GET", auth |-> auth, key |-> UnreadKey,
                body |-> UnreadBody, quoteId |-> quoteId,
                resp |-> IF canActivate(auth) # "ok"
                         THEN ErrorResponse(401, canActivate(auth))
                         ELSE getQuoteById(quotesDb, quoteId)]
    /\ UNCHANGED <<now, store, quotesDb, published, quotesCreatedTotal,
                   circuitBreakerState, cb, req, pricing, fixed, thrown, sends>>

ApiNext ==
    \/ \E r \in Req, q \in ApiRequests : PostQuote(r, q)
    \/ \E r \in Req : CallSucceeds(r)
    \/ \E auth \in {AuthAbsent, AuthNotBearer, AuthBearerInvalid, AuthBearerDev},
          quoteId \in QuoteIds : GetQuote(auth, quoteId)

SpecApi == Init /\ [][ApiNext]_vars

\* ------------------------------------------------------------------- events
\* The QuoteIssued publication with a Service Bus that is or is not
\* configured and sendMessages calls that resolve, reject or stay
\* pending.  The clock does not move here.
EventRequests ==
    [auth : {AuthBearerDev}, key : {KeyA}, body : {BodyAuto}]
    \cup [auth : {AuthBearerDev}, key : {KeyB}, body : {BodyHome}]

EventsInit ==
    /\ now = 0
    /\ store = EmptyStore
    /\ quotesDb = [i \in {} |-> NoQuote]
    /\ published = NoCalls
    /\ quotesCreatedTotal = [l \in {"APPROVED", "PENDING"} \X DocumentType |-> 0]
    /\ circuitBreakerState = 0
    /\ cb = BreakerInit
    /\ req = [r \in Req |-> NewRequest]
    /\ dto = UnreadBody
    /\ priced = NotPriced
    /\ idempotencyHitsTotal = 0
    /\ serviceBus \in {BusNone, BusConnectionString, BusNamespace}
    /\ sends = NoSends
    /\ last = NoExchange
    /\ thrown = NoThrow
    /\ cbEnv = EnvDefault

\* Variant: a publication that failed takes the quote back.
PublishRejected_TakesBack(db, quoteId) ==
    [i \in DOMAIN db \ {quoteId} |-> db[i]]

\* catch (err) { this.logger.error(...) } in publishQuoteIssued and
\* .catch(() => undefined) in createQuote: the failure is logged, the
\* quote stays.
PublishRejected(db, quoteId) == db

\* sender.sendMessages(...) resolves.
SendResolves(i) ==
    /\ i \in DOMAIN sends
    /\ sends[i] = "pending"
    /\ sends' = [sends EXCEPT ![i] = "sent"]
    /\ UNCHANGED <<now, store, quotesDb, published, quotesCreatedTotal,
                   circuitBreakerState, cb, req, pricing, fixed, thrown, last>>

\* sender.sendMessages(...) rejects.
SendRejects(i) ==
    /\ i \in DOMAIN sends
    /\ sends[i] = "pending"
    /\ sends' = [sends EXCEPT ![i] = "failed"]
    /\ quotesDb' = PublishRejected(quotesDb, i)
    /\ UNCHANGED <<now, store, published, quotesCreatedTotal,
                   circuitBreakerState, cb, req, pricing, fixed, thrown, last>>

EventsNext ==
    \/ \E r \in Req, q \in EventRequests : Arrive(r, q) /\ UNCHANGED last
    \/ \E r \in Req : CallSucceeds(r)
    \/ \E r \in Req : CallFails(r)
    \/ \E i \in Req : SendResolves(i)
    \/ \E i \in Req : SendRejects(i)

SpecEvents == EventsInit /\ [][EventsNext]_vars

\* ------------------------------------------------------------------- filter
\* HttpExceptionFilter.catch as a function of the exception and of whether
\* the response headers were sent already.  An exception is an
\* HttpException whose response carries a code ("coded"), one whose
\* response carries a list of messages ("list", its first message is
\* kept) or a single message ("text"), or not an HttpException ("error").
HttpStatuses == {400, 401, 403, 404, 409, 418, 422, 429, 500, 503}

Details == {"connect ECONNREFUSED 10.0.0.5:5432",
            "Cannot read properties of undefined (reading 'premium')"}

Exceptions ==
    [kind : {"coded"}, status : HttpStatuses, code : {"NOT_FOUND"}, message : Details]
    \cup [kind : {"list", "text"}, status : HttpStatuses, code : {""}, message : Details]
    \cup [kind : {"error"}, status : {0}, code : {""}, message : Details]

GenericMessage == "An unexpected error occurred"

\* codeFromStatus
codeFromStatus(status) ==
    CASE status = 400 -> "BAD_REQUEST"
      [] status = 401 -> "UNAUTHORIZED"
      [] status = 403 -> "FORBIDDEN"
      [] status = 404 -> "NOT_FOUND"
      [] status = 409 -> "CONFLICT"
      [] status = 422 -> "UNPROCESSABLE_ENTITY"
      [] status = 429 -> "TOO_MANY_REQUESTS"
      [] status = 500 -> "INTERNAL_SERVER_ERROR"
      [] status = 503 -> "SERVICE_UNAVAILABLE"
      [] OTHER -> "UNKNOWN_ERROR"

\* Variant: the message of any exception is passed on to the caller.
catch_PassesMessage(exception, headersSent) ==
    IF headersSent THEN NoJson
    ELSE IF exception.kind = "coded"
         THEN [status |-> exception.status, code |-> exception.code,
               message |-> exception.message]
    ELSE IF exception.kind \in {"list", "text"}
         THEN [status |-> exception.status,
               code |-> codeFromStatus(exception.status),
               message |-> exception.message]
    ELSE [status |-> 500, code |-> "INTERNAL_SERVER_ERROR",
          message |-> exception.message]

\* catch(exception, host): the status, code and message of the JSON it
\* sends; nothing is sent when the headers were sent already.
catch(exception, headersSent) ==
    IF headersSent THEN NoJson
    ELSE IF exception.kind = "coded"
         THEN [status |-> exception.status, code |-> exception.code,
               message |-> exception.message]
    ELSE IF exception.kind \in {"list", "text"}
         THEN [status |-> exception.status,
               code |-> codeFromStatus(exception.status),
               message |-> exception.message]
    ELSE [status |-> 500, code |-> "INTERNAL_SERVER_ERROR",
          message |-> GenericMessage]

\* The requests handled beside the one whose handling throws.
FilterRequests == [auth : {AuthBearerDev}, key : {KeyA}, body : {BodyAuto}]

FilterInit ==
    /\ now = 0
    /\ store = EmptyStore
    /\ quotesDb = [i \in {} |-> NoQuote]
    /\ published = NoCalls
    /\ quotesCreatedTotal = [l \in {"APPROVED", "PENDING"} \X DocumentType |-> 0]
    /\ circuitBreakerState = 0
    /\ cb = BreakerInit
    /\ req = [r \in Req |-> NewRequest]
    /\ dto = UnreadBody
    /\ priced = NotPriced
    /\ idempotencyHitsTotal = 0
    /\ serviceBus = BusNone
    /\ sends = NoSends
    /\ last = NoExchange
    /\ thrown \in [exception : Exceptions, headersSent : BOOLEAN, json : {NoJson}]
    /\ cbEnv = EnvDefault

\* The exception escapes the handling of a request and the filter
\* answers that request.
FilterCatches ==
    /\ thrown.json = NoJson
    /\ thrown' = [thrown EXCEPT !.json = catch(thrown.exception, thrown.headersSent)]
    /\ UNCHANGED <<now, store, quotesDb, published, quotesCreatedTotal,
                   circuitBreakerState, cb, req, pricing, fixed, sends, last>>

FilterNext ==
    \/ FilterCatches
    \/ \E r \in Req, q \in FilterRequests : Arrive(r, q) /\ UNCHANGED last
    \/ \E r \in Req : CallSucceeds(r)

SpecFilter == FilterInit /\ [][FilterNext]_vars

\* -------------------------------------------------------------------- order
\* POST requests that can fail at more than one stage: every combination
\* of a refused or accepted header, an absent, malformed or good key and
\* a valid or invalid body.  The aggregator answers every call and the
\* clock does not move here.
OrderRequests ==
    [auth : {AuthAbsent, AuthBearerInvalid, AuthBearerDev},
     key : {NoKey, KeyNotUuid, KeyA},
     body : {BodyAuto, BodyBoat}]

OrderNext ==
    \/ \E r \in Req, q \in OrderRequests : PostQuote(r, q)
    \/ \E r \in Req : CallSucceeds(r)

SpecOrder == Init /\ [][OrderNext]_vars

\* --------------------------------------------------------------- request id
\* POST /api/v1/quotes with or without an X-Request-ID header of the
\* client, and the X-Request-ID header of the response.
NoRequestId == ""
ClientRequestId == "client-request-1"
GeneratedRequestId == "uuidv4()"
NoHeader == "(header not set)"

\* RequestIdInterceptor.intercept: the client's header or a new uuid.
requestId(sent) == IF sent # NoRequestId THEN sent ELSE GeneratedRequestId

\* The X-Request-ID header of the response.  The controller's guard runs
\* before the global interceptor: a request the guard refuses never
\* reaches RequestIdInterceptor, and the filter that answers it puts the
\* request id in the JSON only.
XRequestIdHeader(auth, sent) ==
    IF canActivate(auth) = "ok" THEN requestId(sent) ELSE NoHeader

\* The requestId field of an error's JSON (HttpExceptionFilter.catch).
ErrorRequestId(auth, sent) ==
    IF canActivate(auth) = "ok" THEN requestId(sent) ELSE ""

TracedRequests ==
    [auth : {AuthAbsent, AuthBearerInvalid, AuthBearerDev},
     key : {NoKey, KeyNotUuid, KeyA},
     body : {BodyAuto}]

PostTraced(r, q, sent) ==
    /\ Arrive(r, q)
    /\ last' = [method |-> "POST", auth |-> q.auth, key |-> q.key,
                body |-> q.body, quoteId |-> 0, resp |-> req'[r].resp,
                sent |-> sent,
                xRequestId |-> XRequestIdHeader(q.auth, sent),
                jsonRequestId |-> ErrorRequestId(q.auth, sent)]

TracedNext ==
    \/ \E r \in Req, q \in TracedRequests, sent \in {NoRequestId, ClientRequestId} :
          PostTraced(r, q, sent)
    \/ \E r \in Req : CallSucceeds(r)

SpecTraced == Init /\ [][TracedNext]_vars

\* --------------------------------------------------------------- slow calls
\* The service started with CB_TIMEOUT above CB_RESET_TIMEOUT: a call
\* dispatched while the breaker was CLOSED can still be running when the
\* reset timer fires.
SlowRequests ==
    [auth : {AuthBearerDev}, key : {KeyA}, body : {BodyAuto}]
    \cup [auth : {AuthBearerDev}, key : {KeyB}, body : {BodyHome}]

SlowInit ==
    /\ now = 0
    /\ store = EmptyStore
    /\ quotesDb = [i \in {} |-> NoQuote]
    /\ published = NoCalls
    /\ quotesCreatedTotal = [l \in {"APPROVED", "PENDING"} \X DocumentType |-> 0]
    /\ circuitBreakerState = 0
    /\ cb = BreakerInit
    /\ req = [r \in Req |-> NewRequest]
    /\ dto = UnreadBody
    /\ priced = NotPriced
    /\ idempotencyHitsTotal = 0
    /\ serviceBus = BusNone
    /\ sends = NoSends
    /\ last = NoExchange
    /\ thrown = NoThrow
    /\ cbEnv = EnvSlowCalls

SlowNext ==
    \/ \E r \in Req, q \in SlowRequests : Arrive(r, q) /\ UNCHANGED last
    \/ \E r \in Req : CallSucceeds(r)
    \/ \E r \in Req : CallFails(r)
    \/ \E r \in Req : CallTimesOut(r)
    \/ ResetTimerFires
    \/ Tick

SpecSlowCalls == SlowInit /\ [][SlowNext]_vars

\* ------------------------------------------------------------------ timers
\* The pipeline with its timers running: Node's clock goes on and a timer
\* that is due has its callback run.  callExternalAggregator may settle or
\* not; requests may come or not.
LiveRequests == [auth : {AuthBearerDev}, key : {KeyA}, body : {BodyAuto}]

\* A timer of the breaker is set and has not run.
TimerArmed ==
    \/ cb.resetAt >= 0
    \/ \E r \in Req : req[r].pc = "inflight"

\* One second passes; the clock goes on past the last arrival for as long
\* as a timer is set.
TimePasses ==
    /\ now < MaxTicks * MsPerSecond \/ TimerArmed
    /\ ~TimerDue
    /\ now' = now + MsPerSecond
    /\ UNCHANGED <<store, quotesDb, published, quotesCreatedTotal,
                   circuitBreakerState, cb, req, pricing, fixed, thrown, sends, last>>

\* Requests come while the clock is within MaxTicks seconds.
LiveArrive ==
    /\ now <= MaxTicks * MsPerSecond
    /\ \E r \in Req, q \in LiveRequests : Arrive(r, q) /\ UNCHANGED last

LiveNext ==
    \/ LiveArrive
    \/ \E r \in Req : CallSucceeds(r)
    \/ \E r \in Req : CallFails(r)
    \/ \E r \in Req : CallTimesOut(r)
    \/ ResetTimerFires
    \/ TimePasses

TimersRun ==
    /\ WF_vars(TimePasses)
    /\ WF_vars(ResetTimerFires)
    /\ \A r \in Req : WF_vars(CallTimesOut(r))

SpecLive == Init /\ [][LiveNext]_vars /\ TimersRun

\* ================================================================== claims
\* A request is in one of these positions.
Created(r) == req[r].pc = "done" /\ req[r].resp.idem = "created"
Cached(r) == req[r].pc = "done" /\ req[r].resp.idem = "cached"
Flying(r) == req[r].pc = "inflight"

\* Steps of a request (action level).
Arrives(r) == req[r].pc = "new" /\ req'[r].pc # "new"
ExecutionEnds(r) ==
    req[r].pc # "done" /\ req'[r].pc = "done" /\ req'[r].resp.idem = "created"

\* A record for key k that is younger than the TTL.
LiveRecord(k) == k \in DOMAIN store /\ now - store[k].createdAt < ttlMs

\* r is the only request that executed or is executing createQuote for its key.
OnlyExecution(r) ==
    \A o \in Req \ {r} : req[o].key = req[r].key => ~Flying(o) /\ ~Created(o)

BusinessUnchanged ==
    UNCHANGED <<quotesDb, published, quotesCreatedTotal, cb, circuitBreakerState>>

\* C1. Sequential idempotence: an execution answers 201 with
\* X-Idempotency-Result: created and its body is stored under the key; when
\* the same key is sent again before that record's TTL elapses, and no other
\* request executed for the key, the response is 200, marked cached, and
\* its body is the first response's body.
C1_SequentialIdempotence ==
    [][\A r1 \in Req, r2 \in Req :
        /\ ExecutionEnds(r1) =>
              /\ req'[r1].resp.status = 201
              /\ req'[r1].key \in DOMAIN store'
              /\ store'[req'[r1].key] =
                    [body |-> req'[r1].resp.body, createdAt |-> now]
        /\ ( /\ Created(r1) /\ OnlyExecution(r1)
             /\ Arrives(r2) /\ req'[r2].key = req[r1].key
             /\ LiveRecord(req[r1].key) ) =>
              /\ req[r1].resp.status = 201
              /\ req'[r2].pc = "done"
              /\ req'[r2].resp.status = 200
              /\ req'[r2].resp.idem = "cached"
              /\ req'[r2].resp.body = req[r1].resp.body]_vars

\* A first response 201/created and a second response 200/cached with the
\* same body, for one key, with a single execution.
C1_Witness ==
    \E r1 \in Req, r2 \in Req :
        /\ r1 < r2 /\ req[r1].key = req[r2].key
        /\ Created(r1) /\ OnlyExecution(r1) /\ req[r1].resp.status = 201
        /\ Cached(r2) /\ req[r2].resp.status = 200
        /\ req[r2].resp.body = req[r1].resp.body

\* C2 as stated. At most one execution per key and TTL window, whatever the
\* interleaving: no execution for a key ends while a record of an earlier
\* execution for that key is still live.
C2_AtMostOncePerWindow ==
    [][\A r \in Req : ExecutionEnds(r) => ~LiveRecord(req'[r].key)]_vars

\* C2 amended. A request with key K that arrives after an execution for K
\* has stored its record, and before that record's TTL elapses, does not
\* execute createQuote (no breaker call, no quote, no event, no counter
\* increment) and gets the result of an execution for K.  Requests
\* that passed the lookup before any record was stored may each execute.
C2_AtMostOnceAfterStore ==
    [][\A r \in Req :
        ( /\ Arrives(r)
          /\ LiveRecord(req'[r].key)
          /\ \E r1 \in Req : Created(r1) /\ req[r1].key = req'[r].key ) =>
            /\ req'[r].pc = "done"
            /\ req'[r].resp.idem = "cached"
            /\ \E r1 \in Req : /\ Created(r1) /\ req[r1].key = req'[r].key
                               /\ req'[r].resp.body = req[r1].resp.body
            /\ BusinessUnchanged]_vars

\* Two requests with one key, one execution: one quote, one event.
C2_Witness ==
    \E r1 \in Req, r2 \in Req :
        /\ Created(r1) /\ Cached(r2) /\ req[r1].key = req[r2].key
        /\ Cardinality({e \in DOMAIN published : e.idempotencyKey = req[r1].key}) = 1
        /\ Cardinality(DOMAIN quotesDb) = 1
        /\ cb.fires = 1

\* C3. A record's body is never replaced by another while the record is
\* live.
C3_RecordImmutable ==
    [][\A k \in DOMAIN store :
        (LiveRecord(k) /\ k \in DOMAIN store') => store'[k].body = store[k].body]_vars

\* C4. A request whose key has a live record is answered from the record:
\* the handler and createQuote do not run, so the breaker, the quote store,
\* the published events, the counter and the record are unchanged.
C4_HitShortCircuits ==
    [][\A r \in Req :
        (Arrives(r) /\ LiveRecord(req'[r].key)) =>
            /\ req'[r].pc = "done"
            /\ req'[r].resp =
                 [status |-> 200, code |-> "", idem |-> "cached",
                  body |-> store[req'[r].key].body]
            /\ BusinessUnchanged
            /\ UNCHANGED store]_vars

\* A hit on a record that is older than the moment it was stored.
C4_Witness ==
    \E r \in Req :
        /\ Cached(r)
        /\ req[r].key \in DOMAIN store
        /\ store[req[r].key].body = req[r].resp.body
        /\ store[req[r].key].createdAt < now
        /\ Cardinality(DOMAIN quotesDb) = 1

\* C5. After requests with one key have raced and finished, the store
\* holds exactly one record for the key, and a request that later gets a
\* cached answer (no request with the key in flight) was answered with
\* that record: as long as the record it read has not passed its TTL, the
\* store still holds that record, body and createdAt.
C5_Convergence ==
    \A r \in Req :
        ( /\ Cached(r) /\ ~req[r].overlapped
          /\ InFlight(req[r].key) = {}
          /\ now - req[r].entryCreatedAt < ttlMs ) =>
            /\ req[r].key \in DOMAIN store
            /\ store[req[r].key] =
                  [body |-> req[r].resp.body,
                   createdAt |-> req[r].entryCreatedAt]

\* Two requests with one key both executed (the second passed the lookup
\* before the first stored, since the record read later is younger than one
\* TTL), and a later reader got the record the store holds.
C5_Witness ==
    \E r1 \in Req, r2 \in Req, r3 \in Req :
        /\ r1 < r2 /\ r2 < r3
        /\ req[r1].key = req[r3].key /\ req[r2].key = req[r3].key
        /\ Created(r1) /\ Created(r2)
        /\ req[r1].resp.body # req[r2].resp.body
        /\ Cached(r3) /\ ~req[r3].overlapped
        /\ req[r3].entryCreatedAt < ttlMs
        /\ req[r3].key \in DOMAIN store
        /\ store[req[r3].key].body = req[r3].resp.body

\* C6. store(K, ...) when a record for K exists leaves the record as it
\* is: an execution that ends while the Map holds a record for its key does
\* not change that record.
C6_StoreAppendOnce ==
    [][\A r \in Req :
        (ExecutionEnds(r) /\ req'[r].key \in DOMAIN store) =>
            store'[req'[r].key] = store[req'[r].key]]_vars

\* C7. A lookup that finds a record older than the TTL is a miss and
\* removes the record; the request then runs the handler (it fails
\* validation, or createQuote is started or finished); and the record an
\* execution stores carries the time of the store and a new quote.
C7_TtlExpiry ==
    [][\A r \in Req :
        /\ ( /\ Arrives(r)
             /\ req'[r].key \in DOMAIN store
             /\ now - store[req'[r].key].createdAt > ttlMs ) =>
              /\ req'[r].resp.idem # "cached"
              /\ \/ req'[r].key \notin DOMAIN store'
                 \/ /\ store'[req'[r].key].createdAt = now
                    /\ store'[req'[r].key].body # store[req'[r].key].body
              /\ \/ req'[r].resp.code = "VALIDATION_ERROR"
                 \/ req'[r].pc = "inflight"
                 \/ req'[r].resp.idem = "created"
        /\ ExecutionEnds(r) =>
              /\ req'[r].key \in DOMAIN store'
              /\ store'[req'[r].key].createdAt = now
              /\ store'[req'[r].key].body.quoteId \notin DOMAIN quotesDb]_vars

\* A record stored at time 0 was read by a second request, and a third
\* request with the key, arriving when the record was older than the TTL,
\* removed it and started createQuote.
C7_Witness ==
    \E r1 \in Req, r2 \in Req, r3 \in Req :
        /\ req[r1].key = req[r3].key /\ req[r2].key = req[r3].key
        /\ Created(r1) /\ Cached(r2) /\ Flying(r3)
        /\ req[r3].startedAt - req[r2].entryCreatedAt > ttlMs
        /\ req[r3].key \notin DOMAIN store

\* C8. A request that missed and then failed (the body is rejected by
\* validation) leaves no record under its key and runs no business logic,
\* so the next request with the key is a miss too.
C8_OnlySuccessCached ==
    [][\A r \in Req :
        (Arrives(r) /\ req'[r].resp.code = "VALIDATION_ERROR") =>
            /\ req'[r].key \notin DOMAIN store'
            /\ \A k \in DOMAIN store' : k \in DOMAIN store /\ store'[k] = store[k]
            /\ BusinessUnchanged]_vars

\* A request failed validation and a later request with the same key
\* executed.
C8_Witness ==
    \E r1 \in Req, r2 \in Req :
        /\ r1 < r2 /\ req[r1].key = req[r2].key
        /\ req[r1].pc = "done" /\ req[r1].resp.code = "VALIDATION_ERROR"
        /\ Created(r2)
        /\ Cardinality(DOMAIN quotesDb) = 1

\* The header values of Requests that are not UUID v4.
MalformedKeys == {KeyNotUuid, KeyV1}

\* C9. An authenticated request without Idempotency-Key is answered 400
\* MISSING_IDEMPOTENCY_KEY, one with a value that is not a UUID v4 400
\* INVALID_IDEMPOTENCY_KEY; in both cases no business logic runs and the
\* idempotency store is left as it was.
C9_KeyValidation ==
    [][\A r \in Req :
        (Arrives(r) /\ req'[r].auth = AuthBearerDev) =>
            /\ req'[r].key = NoKey =>
                  /\ req'[r].resp = [status |-> 400, idem |-> "", body |-> NoQuote,
                                     code |-> "MISSING_IDEMPOTENCY_KEY"]
                  /\ BusinessUnchanged /\ UNCHANGED store
            /\ req'[r].key \in MalformedKeys =>
                  /\ req'[r].resp = [status |-> 400, idem |-> "", body |-> NoQuote,
                                     code |-> "INVALID_IDEMPOTENCY_KEY"]
                  /\ BusinessUnchanged /\ UNCHANGED store
            /\ req'[r].resp.code \in {"MISSING_IDEMPOTENCY_KEY",
                                      "INVALID_IDEMPOTENCY_KEY"} =>
                  req'[r].key \in MalformedKeys \cup {NoKey}]_vars

\* One request without key, one with a version-1 UUID and one with a text
\* that is no UUID, each answered with its code.
C9_Witness ==
    \E r1 \in Req, r2 \in Req, r3 \in Req :
        /\ req[r1].key = NoKey
        /\ req[r1].resp.code = "MISSING_IDEMPOTENCY_KEY"
        /\ req[r2].key = KeyV1 /\ req[r3].key = KeyNotUuid
        /\ req[r2].resp.code = "INVALID_IDEMPOTENCY_KEY"
        /\ req[r3].resp.code = "INVALID_IDEMPOTENCY_KEY"

\* The transitions of the breaker.
BreakerEdges == {<<"CLOSED", "OPEN">>, <<"OPEN", "HALF_OPEN">>,
                 <<"HALF_OPEN", "CLOSED">>, <<"HALF_OPEN", "OPEN">>}

\* C10. The breaker changes state only along CLOSED -> OPEN,
\* OPEN -> HALF_OPEN, HALF_OPEN -> CLOSED and HALF_OPEN -> OPEN.
C10_BreakerTransitions ==
    [][cb'.state # cb.state => <<cb.state, cb'.state>> \in BreakerEdges]_vars

\* The breaker opened (two failures were counted), went HALF_OPEN and is
\* CLOSED again.
C10_Witness ==
    /\ cb.state = "CLOSED"
    /\ cb.failures >= volumeThreshold
    /\ circuitBreakerState = 0
    /\ \E r \in Req : Created(r) /\ req[r].resp.body.status = "APPROVED"

\* Steps of the breaker (action level).
FailureCounted == cb'.failures = cb.failures + 1
Trips == cb.state = "CLOSED" /\ cb'.state = "OPEN"

\* C11. With a wrapped call that fails on every invocation (every call
\* fired so far has failed), the breaker goes from CLOSED to OPEN on the
\* failure that brings the number of calls to volumeThreshold or more;
\* and whenever it goes from CLOSED to OPEN, at least volumeThreshold
\* calls have been made and the failure rate is at least
\* errorThresholdPercentage.
C11_BreakerTrip ==
    [][/\ ( /\ cb.state = "CLOSED" /\ FailureCounted
            /\ cb'.failures = cb'.fires
            /\ cb'.fires >= volumeThreshold ) => cb'.state = "OPEN"
       /\ Trips =>
            /\ FailureCounted
            /\ cb'.fires >= volumeThreshold
            /\ cb'.failures * 100 >= errorThresholdPercentage * cb'.fires]_vars

\* volumeThreshold calls were made, all failed, and the breaker is OPEN.
C11_Witness ==
    /\ cb.state = "OPEN"
    /\ cb.fires = volumeThreshold
    /\ cb.failures = volumeThreshold
    /\ \A r \in Req : req[r].pc = "done" => req[r].resp.body.status = "PENDING"

\* C12. While fewer than volumeThreshold calls have been recorded the
\* breaker is CLOSED, whatever the failure rate.
C12_VolumeThresholdGuard ==
    cb.fires < volumeThreshold => cb.state = "CLOSED"

\* One call was made and it failed (failure rate 100%): still CLOSED.
C12_Witness ==
    /\ cb.fires = 1 /\ cb.failures = 1
    /\ cb.fires < volumeThreshold
    /\ cb.state = "CLOSED"

\* The request r called breaker.fire in this step.
Fires(r) == Arrives(r) /\ cb'.fires = cb.fires + 1

\* No wrapped call is started in this step.
NoDispatch == \A p \in Req : req'[p].pc = "inflight" => req[p].pc = "inflight"

\* The premium of the rate table for a valid body of Requests, in hundredths.
TablePremium(body) ==
    CASE body = BodyAuto -> 125000
      [] body = BodyHome -> 2221

\* C13. While the breaker is OPEN, a request that calls fire does not start
\* the wrapped call: it is answered in the same step with the fallback
\* result (status PENDING, premium of the rate table).
C13_OpenNeverInvokes ==
    [][\A r \in Req :
        (Fires(r) /\ cb.state = "OPEN") =>
            /\ NoDispatch
            /\ req'[r].pc = "done"
            /\ req'[r].resp.status = 201
            /\ req'[r].resp.body.status = "PENDING"
            /\ req'[r].resp.body.premium = TablePremium(req'[r].body)
            /\ cb'.state = "OPEN"]_vars

\* Two calls failed and opened the breaker; a third call was made while it
\* was OPEN and was neither a failure nor a success.
C13_Witness ==
    /\ cb.state = "OPEN"
    /\ cb.fires = cb.failures + 1
    /\ \A r \in Req : Created(r) /\ req[r].resp.body.status = "PENDING"

\* C14. The breaker is OPEN no longer than resetTimeout: when the reset
\* timer fires it becomes HALF_OPEN and allows one trial; the next call is
\* then dispatched to the wrapped operation as the trial; when the trial
\* succeeds the breaker becomes CLOSED; and a call made while the breaker
\* is CLOSED is dispatched to the wrapped operation.
C14_Recovery ==
    [][/\ cb.state = "OPEN" => (cb.resetAt >= 0 /\ now <= cb.resetAt)
       /\ (cb.state = "OPEN" /\ cb'.state = "HALF_OPEN") =>
            (now >= cb.resetAt /\ cb'.pendingClose)
       /\ \A r \in Req :
            /\ (Fires(r) /\ cb.state = "HALF_OPEN" /\ cb.pendingClose) =>
                  /\ req'[r].pc = "inflight"
                  /\ req'[r].trial
                  /\ cb'.state = "HALF_OPEN"
            /\ ( /\ Flying(r) /\ req[r].trial /\ cb.state = "HALF_OPEN"
                 /\ req'[r].pc = "done"
                 /\ req'[r].resp.body.status = "APPROVED" ) =>
                  cb'.state = "CLOSED"
            /\ (Fires(r) /\ cb.state = "CLOSED") =>
                  (req'[r].pc = "inflight" /\ cb'.state = "CLOSED")]_vars

\* The breaker opened, the trial call was dispatched while it was
\* HALF_OPEN, the trial succeeded and the breaker is CLOSED.
C14_Witness ==
    /\ cb.state = "CLOSED"
    /\ circuitBreakerState = 0
    /\ \E r \in Req :
          /\ Created(r) /\ req[r].trial
          /\ req[r].resp.body.status = "APPROVED"

\* C15. When the trial call fails or times out while the breaker is
\* HALF_OPEN, the breaker becomes OPEN and the reset clock restarts: the
\* deadline is a full resetTimeout after that failure, it does not move
\* while the breaker stays OPEN, and the breaker does not become HALF_OPEN
\* before it.
C15_FailedTrialReopens ==
    [][/\ \A r \in Req :
            ( /\ Flying(r) /\ req[r].trial /\ cb.state = "HALF_OPEN"
              /\ req'[r].pc = "done"
              /\ req'[r].resp.body.status = "PENDING" ) =>
                /\ cb'.state = "OPEN"
                /\ cb'.resetAt = now + resetTimeout
       /\ (cb.state = "OPEN" /\ cb'.state = "OPEN") => cb'.resetAt = cb.resetAt
       /\ (cb.state = "OPEN" /\ cb'.state # "OPEN") =>
            (cb'.state = "HALF_OPEN" /\ now >= cb.resetAt)]_vars

\* The trial failed, the breaker opened again and, a resetTimeout later,
\* is HALF_OPEN for the second time.
C15_Witness ==
    /\ cb.state = "HALF_OPEN" /\ cb.pendingClose
    /\ now >= 2 * resetTimeout
    /\ \E r \in Req :
          /\ Created(r) /\ req[r].trial
          /\ req[r].resp.body.status = "PENDING"

\* The request r gets its response in this step.
Answered(r) == req[r].pc # "done" /\ req'[r].pc = "done"

C17_FallbackEquivalence ==
    (priced.aggregator # NoResult /\ priced.fallback # NoResult) =>
        /\ priced.fallback.premium = priced.aggregator.premium
        /\ priced.fallback.status = "PENDING"
        /\ priced.aggregator.status = "APPROVED"

\* A LIFE dto was priced by both.
C17_Witness ==
    /\ dto.documentType = "LIFE"
    /\ dto.coverageAmount = MaxAmount
    /\ priced.aggregator # NoResult /\ priced.fallback # NoResult
    /\ priced.fallback.premium = priced.aggregator.premium

\* The rate table of the specification, in thousandths.
TableRate(documentType) ==
    CASE documentType = "AUTO" -> 25
      [] documentType = "HOME" -> 18
      [] documentType = "LIFE" -> 12
      [] documentType = "HEALTH" -> 20
      [] documentType = "TRAVEL" -> 8
      [] OTHER -> 20

\* C18. The premium callExternalAggregator returns is coverageAmount times
\* the rate of the document type (0.02 for a type that is not in the
\* table), rounded to two decimals: in hundredths it is within one half of
\* the exact product; AUTO with coverage 50000 gives 1250.00.
C18_PremiumComputation ==
    priced.aggregator # NoResult =>
        LET exact == dto.coverageAmount * TableRate(dto.documentType)
            p == priced.aggregator.premium
        IN /\ 10 * p - exact \in -5..5
           /\ priced.aggregator.status = "APPROVED"
           /\ dto = BodyAuto => p = 125000

\* HOME with coverage 3: 0.054 is rounded to 0.05.
C18_Witness ==
    /\ dto.documentType = "HOME" /\ dto.coverageAmount = 3
    /\ priced.aggregator.premium = 5

\* C19. Every transition of the breaker sets the circuit_breaker_state
\* gauge: 1 on a transition to OPEN, 2 to HALF_OPEN, 0 to CLOSED; nothing
\* else changes the gauge, so after any transition the gauge encodes the
\* breaker's state.
C19_GaugeFollowsState ==
    [][/\ cb'.state # cb.state =>
            /\ cb'.state = "OPEN" => circuitBreakerState' = 1
            /\ cb'.state = "HALF_OPEN" => circuitBreakerState' = 2
            /\ cb'.state = "CLOSED" => circuitBreakerState' = 0
       /\ cb'.state = cb.state => circuitBreakerState' = circuitBreakerState]_vars

\* The breaker went CLOSED -> OPEN -> HALF_OPEN and the gauge is 2.
C19_Witness ==
    /\ cb.state = "HALF_OPEN"
    /\ circuitBreakerState = 2
    /\ cb.pendingClose

\* The labels of quotes_created_total and the sum of the counter over them.
Labels == {"APPROVED", "PENDING"} \X DocumentType

RECURSIVE SumOver(_, _)
SumOver(c, ls) ==
    IF ls = {} THEN 0
    ELSE LET l == CHOOSE x \in ls : TRUE IN c[l] + SumOver(c, ls \ {l})

QuotesLabelled(l) ==
    {i \in DOMAIN quotesDb : <<quotesDb[i].status, quotesDb[i].documentType>> = l}

\* C21: the creation counter, label by label, counts the quotes in the
\* quote store that have that status and documentType, so the sum of the
\* counter over all labels is the number of quotes in the store, and the
\* quotes in the store are those of the executed creations.
C21_CreationCounter ==
    /\ \A l \in Labels : quotesCreatedTotal[l] = Cardinality(QuotesLabelled(l))
    /\ SumOver(quotesCreatedTotal, Labels) = Cardinality(DOMAIN quotesDb)
    /\ Cardinality(DOMAIN quotesDb) = Cardinality({r \in Req : Created(r)})

\* Quotes of two labels have been created: one APPROVED, one PENDING.
C21_Witness ==
    /\ \E l \in Labels : l[1] = "APPROVED" /\ quotesCreatedTotal[l] >= 1
    /\ \E l \in Labels : l[1] = "PENDING" /\ quotesCreatedTotal[l] >= 1
    /\ SumOver(quotesCreatedTotal, Labels) >= 2

\* C22: the idempotency-hits counter equals the number of requests that
\* were served from the idempotency cache.
C22_HitCounter ==
    idempotencyHitsTotal = Cardinality({r \in Req : Cached(r)})

\* The publishQuoteIssued call of the creation that request r executed.
CallOf(r) == [quoteId |-> req[r].resp.body.quoteId, idempotencyKey |-> req[r].key]

Rejected(r) == req[r].pc = "done" /\ req[r].resp.status \in {400, 401}

\* C23: for every executed creation exactly one publishQuoteIssued call
\* has been made, with the quote that is in the quote store and was
\* returned, and with the request's idempotency key; there is no other
\* call: none for a request served from the cache, rejected or in flight.
C23_OnePublishPerCreation ==
    /\ \A r \in Req : Created(r) =>
          /\ CallOf(r) \in DOMAIN published
          /\ published[CallOf(r)] = 1
          /\ CallOf(r).quoteId \in DOMAIN quotesDb
          /\ quotesDb[CallOf(r).quoteId] = req[r].resp.body
    /\ DOMAIN published = {CallOf(r) : r \in {x \in Req : Created(x)}}
    /\ \A c \in DOMAIN published : c.quoteId \in DOMAIN quotesDb

\* One request created a quote, one was served from the cache and one was
\* rejected: one call has been made.
C23_Witness ==
    /\ \E r \in Req : Created(r)
    /\ \E r \in Req : Cached(r)
    /\ \E r \in Req : Rejected(r)
    /\ Cardinality(DOMAIN published) = 1

\* A sendMessages call settles: it was pending and is not any more.
Settles(i) == i \in DOMAIN sends /\ sends[i] = "pending" /\ sends'[i] # "pending"

\* C24: the creation response is given in the step that calls
\* publishQuoteIssued, while the sendMessages call (if the bus is
\* configured) is still pending; the response, the stored quote and the
\* idempotency record are then the same for every configuration of the
\* bus; and a sendMessages call that resolves or rejects later changes
\* no response, no stored quote and no idempotency record.
C24_FireAndForget ==
    [][/\ \A r \in Req : (Answered(r) /\ req'[r].resp.idem = "created") =>
             LET quote == req'[r].resp.body
                 body == req'[r].body
             IN
             /\ req'[r].resp = CreatedResponse(quote)
             /\ quote \in {MakeQuote(FreshId(r), body, AggregatorResult(body)),
                           MakeQuote(FreshId(r), body, FallbackResult(body))}
             /\ quote.quoteId \in DOMAIN quotesDb'
             /\ quotesDb'[quote.quoteId] = quote
             /\ store'[req'[r].key] = [body |-> quote, createdAt |-> now]
             /\ IF getSender(serviceBus)
                THEN /\ quote.quoteId \in DOMAIN sends'
                     /\ sends'[quote.quoteId] = "pending"
                ELSE sends' = sends
       /\ \A i \in Req : Settles(i) =>
             UNCHANGED <<req, quotesDb, store, published, quotesCreatedTotal,
                         cb, circuitBreakerState>>
      ]_vars

\* With the bus configured, one creation was answered 201 and its
\* publication failed, another was answered 201 and its publication is
\* still pending; both quotes are in the store.
C24_Witness ==
    /\ getSender(serviceBus)
    /\ \E r1, r2 \in Req :
          /\ Created(r1) /\ Created(r2)
          /\ r1 \in DOMAIN sends /\ sends[r1] = "failed"
          /\ r2 \in DOMAIN sends /\ sends[r2] = "pending"
          /\ req[r1].resp.status = 201 /\ req[r2].resp.status = 201
          /\ {r1, r2} \subseteq DOMAIN quotesDb
          /\ req[r1].key \in DOMAIN store /\ req[r2].key \in DOMAIN store

\* The steps of the two routes, by the request that `last` holds after
\* them: a POST takes a request slot, a GET does not.
PostStep(r) == Arrives(r) /\ last'.method = "POST"
GetStep == last' # last /\ last'.method = "GET" /\ \A r \in Req : ~Arrives(r)

\* C25: a GET with an accepted token for the quoteId that an earlier
\* creation returned is answered 200 with the quote of that creation,
\* which is the stored one; for a quoteId that no creation returned it is
\* answered 404 NOT_FOUND, not a 5xx; in both cases the quote store is
\* unchanged.
C25_QuoteLookup ==
    [][(GetStep /\ last'.auth = AuthBearerDev) =>
          /\ UNCHANGED quotesDb
          /\ \A r \in Req :
                (Created(r) /\ req[r].resp.body.quoteId = last'.quoteId) =>
                   /\ last'.resp.status = 200
                   /\ last'.resp.body = req[r].resp.body
                   /\ last'.resp.body = quotesDb[last'.quoteId]
          /\ (\A r \in Req :
                ~(Created(r) /\ req[r].resp.body.quoteId = last'.quoteId)) =>
                   /\ last'.resp.status = 404
                   /\ last'.resp.code = "NOT_FOUND"
                   /\ last'.resp.body = NoQuote
      ]_vars

\* The last request was a GET that returned the quote of a creation,
\* while the quoteId of another request is not in the store.
C25_Witness ==
    /\ last.method = "GET"
    /\ last.resp.status = 200
    /\ \E r \in Req : Created(r) /\ req[r].resp.body = last.resp.body
    /\ \E i \in QuoteIds : i \notin DOMAIN quotesDb

\* The body sent is not the one the stored quote was made from.
DifferentBody(body, quote) ==
    \/ body.documentType # quote.documentType
    \/ body.coverageAmount # quote.coverageAmount

C27_IdempotencyConflict ==
    [][\A r \in Req :
          (/\ PostStep(r)
           /\ last'.auth = AuthBearerDev
           /\ last'.key \in DOMAIN store
           /\ DifferentBody(last'.body, store[last'.key].body)) =>
              req'[r].resp = ErrorResponse(409, "IDEMPOTENCY_CONFLICT")
      ]_vars

RefusedHeaders == {AuthAbsent, AuthNotBearer, AuthBearerInvalid}

\* C29: a POST or a GET without an Authorization header, with a header
\* that is not a Bearer one, or with a token that is refused is answered
\* 401 with MISSING_TOKEN or INVALID_TOKEN, and the idempotency cache, the
\* quote store, the breaker, the gauge, the counters and the publications
\* are unchanged, whatever key the request carries.
C29_AuthGatesRoutes ==
    [][((GetStep \/ \E r \in Req : PostStep(r)) /\ last'.auth \in RefusedHeaders) =>
          /\ last'.resp.status = 401
          /\ last'.resp.code \in {"MISSING_TOKEN", "INVALID_TOKEN"}
          /\ \A r \in Req : PostStep(r) => req'[r].pc = "done" /\ req'[r].resp = last'.resp
          /\ UNCHANGED <<store, quotesDb, cb, circuitBreakerState,
                         quotesCreatedTotal, idempotencyHitsTotal, published, sends>>
      ]_vars

\* A POST was refused with 401 after a creation under the same key was
\* answered, and the last request was a GET with a header that is not a
\* Bearer one, for a quoteId that is in the store, also refused with 401.
C29_Witness ==
    /\ \E r0, r \in Req :
          /\ r0 < r
          /\ Created(r0) /\ req[r0].key = KeyA /\ KeyA \in DOMAIN store
          /\ req[r].pc = "done" /\ req[r].resp.status = 401
    /\ last.method = "GET"
    /\ last.auth = AuthNotBearer
    /\ last.quoteId \in DOMAIN quotesDb
    /\ last.resp.status = 401

\* The filter answers: it had sent nothing and has now.
Caught == thrown.json = NoJson /\ thrown'.json # NoJson

\* C30: an exception that is not an HttpException is answered 500 with
\* code INTERNAL_SERVER_ERROR and the fixed message, which is not the
\* exception's message; answering it changes nothing of the state the
\* requests share, and the requests answered afterwards get their quote
\* (201 created, or 200 from the cache).
C30_UnexpectedFailure ==
    [][/\ (Caught /\ thrown.exception.kind = "error") =>
             /\ thrown'.json.status = 500
             /\ thrown'.json.code = "INTERNAL_SERVER_ERROR"
             /\ thrown'.json.message = GenericMessage
             /\ thrown'.json.message # thrown.exception.message
             /\ thrown'.json.message \notin Details
             /\ UNCHANGED <<store, quotesDb, published, quotesCreatedTotal,
                            idempotencyHitsTotal, cb, circuitBreakerState,
                            req, sends>>
       /\ \A r \in Req :
             (thrown.json.status = 500 /\ thrown.exception.kind = "error"
              /\ Answered(r)) =>
                 \/ req'[r].resp.status = 201 /\ req'[r].resp.idem = "created"
                 \/ req'[r].resp.status = 200 /\ req'[r].resp.idem = "cached"
      ]_vars

\* An exception that is not an HttpException was answered 500 while a
\* request was in flight; one request got its quote and another got it
\* from the cache.
C30_Witness ==
    /\ thrown.exception.kind = "error"
    /\ thrown.json.status = 500
    /\ thrown.json.message = GenericMessage
    /\ \E r \in Req : Created(r)
    /\ \E r \in Req : Cached(r)

\* C31: on a POST the response is decided by the first stage that fails,
\* in the order authentication, key presence, key format, cache lookup,
\* body validation, handler: a refused header gives 401 whatever the key
\* and body are; then an absent key gives MISSING_IDEMPOTENCY_KEY and a
\* malformed one INVALID_IDEMPOTENCY_KEY whatever the body is; then a live
\* record gives the cached result whatever the body is; then an invalid
\* body gives VALIDATION_ERROR with nothing stored under the key; and only
\* a request that passed all of them reaches createQuote.  A request with
\* an invalid body never reaches createQuote.
C31_CheckOrder ==
    [][\A r \in Req : PostStep(r) =>
          LET q == last' IN
          /\ IF q.auth \in RefusedHeaders
                THEN /\ req'[r].resp.status = 401
                     /\ UNCHANGED store
                     /\ ~Fires(r)
             ELSE IF q.key = NoKey
                THEN /\ req'[r].resp.code = "MISSING_IDEMPOTENCY_KEY"
                     /\ UNCHANGED store
                     /\ ~Fires(r)
             ELSE IF q.key \in MalformedKeys
                THEN /\ req'[r].resp.code = "INVALID_IDEMPOTENCY_KEY"
                     /\ UNCHANGED store
                     /\ ~Fires(r)
             ELSE IF LiveRecord(q.key)
                THEN /\ req'[r].resp.idem = "cached"
                     /\ req'[r].resp.status = 200
                     /\ UNCHANGED store
                     /\ ~Fires(r)
             ELSE IF q.body = BodyBoat
                THEN /\ req'[r].resp.status = 400
                     /\ req'[r].resp.code = "VALIDATION_ERROR"
                     /\ q.key \notin DOMAIN store'
                     /\ ~Fires(r)
             ELSE Fires(r)
          /\ (q.body = BodyBoat) =>
                /\ ~Fires(r)
                /\ req'[r].pc = "done"
                /\ UNCHANGED <<quotesDb, published, quotesCreatedTotal, cb>>
      ]_vars

\* A request with a refused header, no key and an invalid body was
\* answered 401; one with the accepted token, a malformed key and an
\* invalid body was answered for its key; the last one, with the accepted
\* token, a new good key and an invalid body, was answered
\* VALIDATION_ERROR and nothing is stored under its key.
C31_Witness ==
    /\ \E r1, r2, r3 \in Req :
          /\ r1 < r2 /\ r2 < r3
          /\ req[r1].pc = "done" /\ req[r1].resp.status = 401
          /\ req[r2].pc = "done" /\ req[r2].resp.code = "INVALID_IDEMPOTENCY_KEY"
          /\ req[r3].pc = "done" /\ req[r3].resp.code = "VALIDATION_ERROR"
    /\ last.method = "POST"
    /\ last.auth = AuthBearerDev /\ last.key = KeyA /\ last.body = BodyBoat
    /\ last.resp.code = "VALIDATION_ERROR"
    /\ KeyA \notin DOMAIN store

C35_CreationTerminates ==
    /\ [](\A r \in Req : Flying(r) => now <= req[r].startedAt + cbOpts.timeout)
    /\ \A r \in Req :
          Flying(r) ~> (/\ Created(r)
                        /\ req[r].resp.body.quoteId \in DOMAIN quotesDb)
    /\ [][\A r \in Req :
            (Flying(r) /\ Answered(r)) =>
                /\ req[r].key \in DOMAIN store'
                /\ store'[req[r].key].createdAt = now
                /\ store'[req[r].key].body = req'[r].resp.body]_vars

\* A request was answered with the fallback result when the breaker's
\* timeout for its call was due.
C35_Witness ==
    \E r \in Req :
        /\ Created(r)
        /\ req[r].resp.body.status = "PENDING"
        /\ now = req[r].startedAt + cbOpts.timeout
        /\ cb.failures = 1
        /\ cb.fires = 1

\* C34: an OPEN breaker becomes HALF_OPEN; and when from some moment on
\* no call fails or times out, every call in flight succeeds and requests
\* keep coming, the breaker is CLOSED from some moment on.  In a run where
\* the requests stop coming the breaker may be left HALF_OPEN waiting for
\* its trial call, and nowhere else.
C34_BreakerRecovers ==
    /\ (cb.state = "OPEN") ~> (cb.state = "HALF_OPEN")
    /\ (/\ <>[][cb'.failures = cb.failures]_vars
        /\ \A r \in Req : WF_vars(CallSucceeds(r))
        /\ WF_vars(LiveArrive))
       => <>[](\/ cb.state = "CLOSED"
               \/ /\ cb.state = "HALF_OPEN"
                  /\ cb.pendingClose
                  /\ ~ENABLED LiveArrive)

\* The breaker opened, its reset timer ran, the trial call succeeded and
\* the breaker is CLOSED.
C34_Witness ==
    /\ cb.state = "CLOSED"
    /\ cb.failures >= 2
    /\ \E r \in Req :
          /\ Created(r)
          /\ req[r].trial
          /\ req[r].resp.body.status = "APPROVED"

\* C36: a lookup that finds a record whose age is the TTL or less is a
\* hit: the request is answered from the record and the record stays;
\* a record is removed by a lookup only when its age exceeds the TTL.
C36_TtlBoundary ==
    [][\A r \in Req :
        (/\ Arrives(r)
         /\ req'[r].key \in DOMAIN store
         /\ now - store[req'[r].key].createdAt <= ttlMs) =>
            /\ req'[r].resp.idem = "cached"
            /\ req'[r].resp.body = store[req'[r].key].body
            /\ store' = store]_vars

\* C37: the response to every request carries an X-Request-ID header
\* (401 of the guard, 400 for the key and cached 200 included), and the
\* header is the client's X-Request-ID when the client sent one.
C37_RequestIdOnEveryResponse ==
    last.method = "POST" =>
        /\ last.xRequestId # NoHeader
        /\ last.sent # NoRequestId => last.xRequestId = last.sent

\* C38: a request answered from the cache leaves the record as it was,
\* createdAt and result; a record's createdAt changes only when an
\* execution with its key stores its result, and then it is the time of
\* the store; so a lookup one TTL or more after the store is a miss,
\* however often the record was read before.
C38_NoSlidingExpiry ==
    [][/\ \A r \in Req :
            (Arrives(r) /\ req'[r].resp.idem = "cached") =>
                /\ req'[r].key \in DOMAIN store /\ req'[r].key \in DOMAIN store'
                /\ store'[req'[r].key] = store[req'[r].key]
       /\ \A k \in DOMAIN store \cap DOMAIN store' :
            store'[k].createdAt # store[k].createdAt =>
                /\ store'[k].createdAt = now
                /\ \E r \in Req : ExecutionEnds(r) /\ req'[r].key = k
       /\ \A r \in Req :
            (/\ Arrives(r)
             /\ req'[r].key \in DOMAIN store
             /\ now >= store[req'[r].key].createdAt + ttlMs) =>
                req'[r].resp.idem # "cached"
      ]_vars

\* A record stored at time 0 was read by a second request, and a third
\* request with the key that came one TTL after the store was not
\* answered from it: its call is in flight.
C38_Witness ==
    \E r1, r2, r3 \in Req :
        /\ r1 < r2 /\ r2 < r3
        /\ req[r2].key = req[r1].key /\ req[r3].key = req[r1].key
        /\ Created(r1)
        /\ Cached(r2) /\ req[r2].entryCreatedAt = 0
        /\ req[r2].resp.body = req[r1].resp.body
        /\ Flying(r3) /\ req[r3].startedAt = ttlMs
        /\ Cardinality(DOMAIN quotesDb) = 1

\* C39: in every reachable state each idempotency record's body is a
\* quote of the quote store: the quote stored under the body's quoteId
\* has the same fields as the body.
C39_RecordsReferToQuotes ==
    \A k \in DOMAIN store :
        /\ store[k].body.quoteId \in DOMAIN quotesDb
        /\ quotesDb[store[k].body.quoteId] = store[k].body

\* A request was answered from a record, and the quote store holds a
\* quote that no record refers to.
C39_Witness ==
    /\ store # EmptyStore
    /\ \E r \in Req : Cached(r) /\ req[r].resp.body = quotesDb[req[r].resp.body.quoteId]
    /\ \E i \in DOMAIN quotesDb : \A k \in DOMAIN store : store[k].body.quoteId # i

\* C40: no step removes or changes a quote of the quote store; a step
\* that ends an execution of createQuote adds exactly one quote, under a
\* quoteId the store did not hold, and it is the quote in the response;
\* every other step (cached answer, refused or invalid request, eviction
\* of an expired record, timer, clock) leaves the quote store as it is.
C40_QuoteStoreAppendOnly ==
    [][/\ \A i \in DOMAIN quotesDb :
            i \in DOMAIN quotesDb' /\ quotesDb'[i] = quotesDb[i]
       /\ \A r \in Req :
            ExecutionEnds(r) =>
                /\ req'[r].resp.body.quoteId \notin DOMAIN quotesDb
                /\ DOMAIN quotesDb' = DOMAIN quotesDb \cup {req'[r].resp.body.quoteId}
                /\ quotesDb'[req'[r].resp.body.quoteId] = req'[r].resp.body
       /\ (\A r \in Req : ~ExecutionEnds(r)) => quotesDb' = quotesDb
      ]_vars

\* A key was executed, its record was read, and after the record expired
\* the key was executed again: the store holds both quotes and the record
\* is the second one.
C40_Witness ==
    \E r1, rc, r2 \in Req :
        /\ r1 < rc /\ rc < r2
        /\ req[rc].key = req[r1].key /\ req[r2].key = req[r1].key
        /\ Created(r1) /\ Created(r2)
        /\ Cached(rc) /\ req[rc].entryCreatedAt = 0
        /\ req[rc].resp.body = req[r1].resp.body
        /\ store[req[r1].key].createdAt >= ttlMs
        /\ store[req[r1].key].body = req[r2].resp.body
        /\ quotesDb[req[r1].resp.body.quoteId] = req[r1].resp.body
        /\ quotesDb[req[r2].resp.body.quoteId] = req[r2].resp.body
        /\ req[r1].resp.body.quoteId # req[r2].resp.body.quoteId

====
